---- MODULE Spec2Model ----
(***************************************************************************)
(* Workflow orchestration core of sfs_agentic_drop_zone.py.                *)
(*                                                                         *)
(* WorkflowMonitor keeps a dict of active records and a list of completed  *)
(* records.  Every watchdog observer is a thread of its own: its handler   *)
(* runs Agents.process_with_agent under asyncio.run, so start_workflow and *)
(* the normal-path complete_workflow execute on the observer's thread.     *)
(* The timeout sentinel (_timeout_monitor_task) and the health endpoints   *)
(* run on the main event loop, a different thread.  No lock protects the   *)
(* monitor, so the statements of complete_workflow executed by different   *)
(* threads interleave; a thread's position is its pc.                      *)
(*                                                                         *)
(* Records are mutable objects: recs is the heap, a record's index in recs *)
(* is its identity, and active / completed hold indices.                   *)
(***************************************************************************)
EXTENDS Integers, Sequences, FiniteSets, Bags, TLC

\* ---- bounds of the model
NumWatchers == 2      \* observer threads
NumIds == 2           \* distinct values the truncated uuid can take
MaxStarts == 2        \* start_workflow calls in a run
MaxTime == 3          \* clock readings after 0, Quantum apart
MaxCalls == 2         \* calls of send_notification made on their own
MaxRouted == 2        \* events a handler routes to an agent
MaxZones == 2         \* zone rules in drops.yaml
MaxDirs == 1          \* entries of a rule's zone_dirs
MaxHistory == 12      \* completed workflows when /workflows/recent is asked

\* ---- program constants
timeout_seconds == 300
CHECK_INTERVAL == 30
NoTime == -1
Last == 10            \* completed_workflows[-10:]

Quantum == timeout_seconds

Sentinel == 0
Watchers == 1..NumWatchers
Threads == Watchers \cup {Sentinel}
IDs == 1..NumIds
Refs == 1..MaxStarts

RUNNING == "running"
COMPLETED == "completed"
FAILED == "failed"
TIMEOUT == "timeout"
Terminal == {COMPLETED, FAILED, TIMEOUT}

NoError == "None"
AgentError == "agent error"
KeyErrorMsg == "KeyError"

VARIABLES
    now,        \* the wall clock, datetime.now(timezone.utc)
    recs,       \* heap of WorkflowMetrics objects, one per start_workflow call
    active,     \* WorkflowMonitor.active_workflows: id -> record (0: no entry)
    completed,  \* WorkflowMonitor.completed_workflows: list of records
    pc,         \* position of every thread
    call,       \* frame of the thread's current or last complete_workflow call
    wf,         \* per watcher: the record its process_with_agent started
    sweep,      \* locals of check_timeouts and the sentinel's wake-up time
    gate,       \* bag of <<record, level>>: invocations of send_notification
    deliveries, \* bag of <<record, level, posted, returned>>: what each invocation did
    notification_config,  \* NotificationConfig: enabled, webhook_url, min_level
    webhook,    \* the webhook endpoint: how it answers a POST
    drop_zone,  \* DropZoneHandler.drop_zone: the rule of the handler looked at
    event,      \* the event that handler was given last, and how the call ended
    routed,     \* the file paths that handler passed to process_with_agent
    config,     \* drops.yaml as read by load_config
    observers,  \* AgenticDropZone.observers: <<zone, directory>> of each one started
    startup,    \* where AgenticDropZone.run is: phase, and the zone start() is at
    query,      \* the request a health endpoint is serving: its locals and result
    shutdown    \* run's finally clause and stop(): where they are, tasks, threads

\* The monitor, its threads and the notification log.
core == <<now, recs, active, completed, pc, call, wf, sweep, gate, deliveries>>

\* The process's configuration and its environment.
setup == <<notification_config, webhook, drop_zone, event, routed,
           config, observers, startup, shutdown>>

\* What the steps of the monitor and its threads never write.
outside == <<setup, query>>

vars == <<core, outside>>

\* ---- WorkflowMetrics and the operations of WorkflowMonitor on its fields

WorkflowMetrics(id, t) ==
    [workflow_id |-> id, status |-> RUNNING, start_time |-> t,
     end_time |-> NoTime, duration_seconds |-> NoTime, error_message |-> NoError]

IsActive_always(a, id) == TRUE

IsActive(a, id) == a[id] # 0

InsertActive(a, id, ref) == [a EXCEPT ![id] = ref]

PopActive_keep(a, id) == a

PopActive(a, id) == [a EXCEPT ![id] = 0]

Stamp(m, t) == [m EXCEPT !.end_time = t, !.duration_seconds = t - m.start_time]

\* metrics.status = status
SetStatus(m, status) == [m EXCEPT !.status = status]

\* metrics.error_message = error_message
SetError(m, err) == [m EXCEPT !.error_message = err]

Finalize_message(m, status, err) == SetError(SetStatus(m, status), AgentError)

\* The two assignments, in the order of the code.
Finalize(m, status, err) == SetError(SetStatus(m, status), err)

append_front(h, ref) == <<ref>> \o h

\* self.completed_workflows.append(metrics)
append(h, ref) == Append(h, ref)

Exceeded_ge(start, current) == current - start >= timeout_seconds

Exceeded(start, current) == current - start > timeout_seconds

NotifyLevel_swapped(status) ==
    IF status = FAILED THEN {"critical"}
    ELSE IF status = TIMEOUT THEN {"error"}
    ELSE {}

NotifyLevel(status) ==
    IF status = FAILED THEN {"error"}
    ELSE IF status = TIMEOUT THEN {"critical"}
    ELSE {}

Notify(g, ref, levels) == g (+) SetToBag({<<ref, l>> : l \in levels})

\* ---- NotificationService.send_notification

Levels == {"info", "warning", "error", "critical"}

\* webhook_url: os.getenv("NOTIFICATION_WEBHOOK_URL"), None when unset
NoUrl == "None"
Urls == {NoUrl, "", "https://hook"}

\* How the endpoint answers a POST; "none" where no URL names an endpoint.
Endpoints == {"2xx", "non-2xx", "transport error"}
NoEndpoint == "none"

NotificationConfigs ==
    [enabled : BOOLEAN, webhook_url : Urls, min_level : Levels]

\* NotificationConfig() as the module builds it with nothing in the environment
DefaultNotificationConfig ==
    [enabled |-> TRUE, webhook_url |-> NoUrl, min_level |-> "error"]

level_order_flat(level) == 0

level_order(level) ==
    CASE level = "info" -> 0
      [] level = "warning" -> 1
      [] level = "error" -> 2
      [] level = "critical" -> 3

post_nocatch(endpoint) == IF endpoint = "2xx" THEN "True" ELSE "raises"

\* try: response = await client.post(...); response.raise_for_status();
\* return True / except Exception: log, return False
post(endpoint) == IF endpoint = "2xx" THEN "True" ELSE "False"

\* What one call does: whether it reaches client.post, and how it ends.
send_notification(cfg, level, endpoint) ==
    IF ~cfg.enabled \/ cfg.webhook_url \in {NoUrl, ""}
    THEN [posted |-> FALSE, returned |-> "False"]
    ELSE IF level_order(level) < level_order(cfg.min_level)
    THEN [posted |-> FALSE, returned |-> "False"]
    ELSE [posted |-> TRUE, returned |-> post(endpoint)]

\* The log of the calls: one entry per call, with what it did.
Deliver(d, ref, levels, cfg, endpoint) ==
    d (+) SetToBag({<<ref, l, send_notification(cfg, l, endpoint).posted,
                      send_notification(cfg, l, endpoint).returned>> : l \in levels})

\* A call for one of the levels ends with an exception.
Raises(levels, cfg, endpoint) ==
    \E l \in levels : send_notification(cfg, l, endpoint).returned = "raises"

\* ---- the agents: Agents.prompt_claude_code, prompt_gemini_cli, prompt_codex_cli

AgentType == {"claude_code", "gemini_cli", "codex_cli"}

\* What happens to an invocation: the agent does its work; something raises
\* (building the prompt, the SDK, the transport); the agent's subprocess cannot
\* be launched; the subprocess exits non-zero.
Invocations == {"success", "exception", "launch failure", "non-zero exit"}

\* How the awaited prompt_* coroutine ends.  prompt_claude_code lets every
\* error propagate.  prompt_gemini_cli builds the prompt outside its try, and
\* inside it catches FileNotFoundError and Exception and only prints the
\* return code.  prompt_codex_cli raises NotImplementedError, always.
prompt(agent, invocation) ==
    CASE agent = "claude_code" ->
           IF invocation = "success" THEN "returns" ELSE "raises"
      [] agent = "gemini_cli" ->
           IF invocation = "exception" THEN "raises" ELSE "returns"
      [] agent = "codex_cli" -> "raises"

ActiveCount == Cardinality({i \in IDs : active[i] # 0})

\* The frame of a complete_workflow call: its arguments, the popped metrics,
\* what it returned, and (history, not read by the program) whether the
\* awaited agent had returned successfully within the deadline when the
\* call was made, and whether the agent invocation behind the call had
\* succeeded.
NoCall ==
    [id |-> 0, status |-> RUNNING, err |-> NoError, ref |-> 0, res |-> "none",
     intime |-> FALSE, invocation |-> "none"]

NewCall(id, status, err, intime, invocation) ==
    [id |-> id, status |-> status, err |-> err, ref |-> 0, res |-> "none",
     intime |-> intime, invocation |-> invocation]

\* The frame once the call is over: only what it returned is kept.
Returned(res) == [NoCall EXCEPT !.res = res]

NoSweep == [snap |-> <<>>, idx |-> 0, timed_out |-> <<>>, current_time |-> 0, wake |-> 0]

\* ---- DropZoneHandler: the events of a watched directory and the zone's filter

EventType == {"created", "modified", "deleted", "moved"}

\* An event type of watchdog for which the handler overrides no method.
OtherEventTypes == {"closed"}

\* A path is its file name, stem and extension; "" is the path with neither.
EmptyPath == [name |-> "", ext |-> ""]
Paths == {[name |-> "a", ext |-> "txt"], [name |-> "b", ext |-> "md"]}
Patterns == {[name |-> "*", ext |-> "txt"], [name |-> "b", ext |-> "*"]}

\* Path(file_path).match(pattern), for patterns <stem>.<extension> where either
\* may be *; the empty path matches no pattern.
Match(path, pattern) ==
    /\ path # EmptyPath
    /\ pattern.name \in {"*", path.name}
    /\ pattern.ext \in {"*", path.ext}

\* A zone rule as the handler reads it: file_patterns may be empty, events may
\* not (DropZone.validate_events).
Zones == [file_patterns : SUBSET Patterns, events : (SUBSET EventType) \ {{}}]

DefaultZone == [file_patterns |-> Patterns, events |-> {"created"}]

\* The events the observer thread hands to the handler.  Only a moved event
\* has a destination: watchdog's emitters give it both paths; has_dest says
\* whether the event object has the attribute at all (what the handler tests),
\* and an event may carry "" for it.
FileSystemEvents ==
    [event_type : (EventType \ {"moved"}) \cup OtherEventTypes, is_directory : BOOLEAN,
     src_path : Paths, has_dest : {FALSE}, dest_path : {EmptyPath}]
    \cup [event_type : {"moved"}, is_directory : BOOLEAN, src_path : Paths,
          has_dest : {TRUE}, dest_path : Paths \cup {EmptyPath}]
    \cup [event_type : {"moved"}, is_directory : BOOLEAN, src_path : Paths,
          has_dest : {FALSE}, dest_path : {EmptyPath}]

\* An event with how its handler call ended.
Outcome(e, how) ==
    [event_type |-> e.event_type, is_directory |-> e.is_directory,
     src_path |-> e.src_path, has_dest |-> e.has_dest, dest_path |-> e.dest_path,
     outcome |-> how]

NoEvent ==
    [event_type |-> "none", is_directory |-> FALSE, src_path |-> EmptyPath,
     has_dest |-> FALSE, dest_path |-> EmptyPath, outcome |-> "none"]

\* event_map.get(event_type) in self.drop_zone.events
should_process_event(zone, event_type) == event_type \in zone.events

subject_src(e) == e.src_path

\* The path an on_* method passes to process_file: src_path, and for on_moved
\* event.dest_path if hasattr(event, "dest_path") else event.src_path
subject(e) ==
    IF e.event_type = "moved" /\ e.has_dest THEN e.dest_path ELSE e.src_path

\* What the file system answers to process_file's size probe,
\* path.stat().st_size if path.exists() else None: the file is not there; it
\* is there; it is there for exists() and gone for stat().
Probes == {"absent", "present", "vanished"}

\* The handler's call for one event: on_<type> and process_file up to
\* asyncio.run(process_with_agent(...)).  "raised": FileNotFoundError from
\* stat(), outside process_file's try, leaves the handler.
handle(zone, e, probe) ==
    IF \/ e.event_type \notin EventType
       \/ e.is_directory
       \/ ~should_process_event(zone, e.event_type)
    THEN "ignored"
    ELSE IF ~\E pattern \in zone.file_patterns : Match(subject(e), pattern)
    THEN "ignored"
    ELSE IF probe = "vanished" THEN "raised"
    ELSE "routed"

\* ---- AgenticDropZone: load_config and start

\* What a zone_dirs entry names: a directory; nothing; something that is not a
\* directory; a glob pattern matching directories; a glob pattern matching none.
DirKinds == {"dir", "missing", "not a dir", "glob", "glob none"}

NoName == "None"

ZoneRules ==
    [name : {NoName, "zone"},
     file_patterns : SUBSET Patterns,
     zone_dirs : UNION {[1..n -> DirKinds] : n \in 0..MaxDirs},
     events : {{}, {"created"}},
     create_zone_dir_if_not_exists : BOOLEAN]

\* drops.yaml: absent, or a list of zone rules.
Configs ==
    [file : {TRUE}, drop_zones : UNION {[1..n -> ZoneRules] : n \in 0..MaxZones}]
    \cup [file : {FALSE}, drop_zones : {<<>>}]

\* DropsConfig(**data): the required fields are there, and zone_dirs and events
\* are not empty (validate_zone_dirs, validate_events).  file_patterns is a
\* list[str] with no validator: any list, the empty one included, is accepted.
Valid(rule) ==
    /\ rule.name # NoName
    /\ rule.zone_dirs # <<>>
    /\ rule.events # {}

\* _expand_zone_dirs keeps the entry d of the rule: a directory or a matching
\* glob; a missing directory only if the rule asks to create it and mkdir
\* succeeds (mk[d]).
Usable(rule, d, mk) ==
    \/ rule.zone_dirs[d] \in {"dir", "glob"}
    \/ /\ rule.zone_dirs[d] = "missing"
       /\ rule.create_zone_dir_if_not_exists
       /\ mk[d]

\* _expand_zone_dirs: the entries kept, in order.
expand_zone_dirs(rule, mk) ==
    LET kept[n \in 0..Len(rule.zone_dirs)] ==
          IF n = 0 THEN <<>>
          ELSE IF Usable(rule, n, mk) THEN Append(kept[n - 1], n) ELSE kept[n - 1]
    IN  kept[Len(rule.zone_dirs)]

\* The configuration behind a running process with one observer per watcher
\* thread: a rule for each, naming one directory that exists.
RunningConfig ==
    [file |-> TRUE,
     drop_zones |-> [w \in Watchers |->
                      [name |-> "zone", file_patterns |-> Patterns,
                       zone_dirs |-> <<"dir">>, events |-> {"created"},
                       create_zone_dir_if_not_exists |-> FALSE]]]

\* run() is past load_config and start(), and its tasks are created.
Started ==
    /\ config = RunningConfig
    /\ observers = [w \in Watchers |-> <<w, Len(RunningConfig.drop_zones[w].zone_dirs)>>]
    /\ startup = [phase |-> "running", zone |-> 0]

\* No handler is looked at on its own.
HandlerAside ==
    /\ drop_zone = DefaultZone
    /\ event = NoEvent
    /\ routed = <<>>

\* A health request: which endpoint (kind), where its handler is (at), the
\* dict iterator it holds (used: the dict's size when the iterator was made;
\* seen: the records it has yielded), and what the handler has computed.
NoQuery ==
    [kind |-> "none", at |-> "none", used |-> 0, seen |-> {}, listing |-> <<>>,
     active_workflows |-> 0, completed_workflows |-> 0,
     oldest_active_workflow |-> NoTime, of |-> 0, recent_workflows |-> <<>>,
     res |-> "none"]

\* The health server is serving no request.
NoRequest == query = NoQuery

\* run's two background tasks and the observers' threads, as run's finally
\* clause and stop() see them: where the main task is (at), the index of
\* stop()'s loop (i), how each task stands, the observers whose stop() was
\* called, and the observer threads that have ended.
NoShutdown ==
    [at |-> "loop", i |-> 0, timeout_task |-> "pending",
     health_server_task |-> "pending", stopped |-> {}, ended |-> {}]

\* run is in its main loop: 'while True: await asyncio.sleep(1)'.
NotStopping == shutdown = NoShutdown

\* The monitor as constructed, the observers started and idle, the sentinel
\* task about to make its first sweep.
InitCore ==
    /\ now = 0
    /\ recs = <<>>
    /\ active = [i \in IDs |-> 0]
    /\ completed = <<>>
    /\ pc = [t \in Threads |-> IF t = Sentinel THEN "sleep" ELSE "idle"]
    /\ call = [t \in Threads |-> NoCall]
    /\ wf = [w \in Watchers |-> 0]
    /\ sweep = NoSweep
    /\ gate = EmptyBag
    /\ deliveries = EmptyBag

\* The process started with nothing about notifications in its environment:
\* no webhook URL, so no call of send_notification goes beyond its first
\* test.  No step of the program reads what send_notification returns.
Init ==
    /\ InitCore
    /\ notification_config = DefaultNotificationConfig
    /\ webhook = NoEndpoint
    /\ HandlerAside
    /\ Started
    /\ NoRequest
    /\ NotStopping

\* ---- the clock.  Time 0 is the first start_workflow: only differences of
\* clock readings are ever used.

Tick ==
    /\ recs # <<>>
    /\ now < MaxTime * Quantum
    /\ now' = now + Quantum
    /\ UNCHANGED <<recs, active, completed, pc, call, wf, sweep, gate, deliveries>>
    /\ UNCHANGED outside

\* ---- the watcher thread: DropZoneHandler.process_file -> process_with_agent

run_returned_early(p, w) == p[w] \in {"idle", "agent", "hung"}

\* The observer thread calls its handler for one event at a time, and the
\* handler's asyncio.run(process_with_agent(...)) returns when the coroutine
\* is done: the thread is back in its dispatch loop, ready for the next event,
\* only when the call for the last one is over.
run_returned(p, w) == p[w] = "idle"

\* The handler mints the id (the first 8 hex digits of a uuid4, so any value,
\* one in use included) and calls start_workflow, then awaits the agent.
process_file(w) ==
    /\ run_returned(pc, w)
    /\ Len(recs) < MaxStarts
    /\ \E id \in IDs :
         /\ recs' = Append(recs, WorkflowMetrics(id, now))
         /\ active' = InsertActive(active, id, Len(recs) + 1)
         /\ wf' = [wf EXCEPT ![w] = Len(recs) + 1]
    /\ pc' = [pc EXCEPT ![w] = "agent"]
    /\ UNCHANGED <<now, completed, call, sweep, gate, deliveries>>
    /\ UNCHANGED outside

\* The awaited prompt_* call returns: complete_workflow(workflow_id, COMPLETED).
\* The zone's agent and what happened to the invocation are any for which the
\* coroutine returns; the frame keeps whether the invocation succeeded.
AgentReturns(w) ==
    /\ pc[w] = "agent"
    /\ \E agent \in AgentType, invocation \in Invocations :
         /\ prompt(agent, invocation) = "returns"
         /\ call' = [call EXCEPT ![w] =
                       NewCall(recs[wf[w]].workflow_id, COMPLETED, NoError,
                               /\ invocation = "success"
                               /\ now - recs[wf[w]].start_time <= timeout_seconds,
                               IF invocation = "success" THEN "success" ELSE "failure")]
    /\ pc' = [pc EXCEPT ![w] = "c_check"]
    /\ UNCHANGED <<now, recs, active, completed, wf, sweep, gate, deliveries>>
    /\ UNCHANGED outside

\* The awaited prompt_* call raises: complete_workflow(workflow_id, FAILED, str(e)).
AgentRaises(w) ==
    /\ pc[w] = "agent"
    /\ \E agent \in AgentType, invocation \in Invocations :
         /\ prompt(agent, invocation) = "raises"
         /\ call' = [call EXCEPT ![w] =
                       NewCall(recs[wf[w]].workflow_id, FAILED, AgentError, FALSE, "failure")]
    /\ pc' = [pc EXCEPT ![w] = "c_check"]
    /\ UNCHANGED <<now, recs, active, completed, wf, sweep, gate, deliveries>>
    /\ UNCHANGED outside

\* The awaited agent call never returns: the observer thread stays in it.
AgentHangs(w) ==
    /\ pc[w] = "agent"
    /\ pc' = [pc EXCEPT ![w] = "hung"]
    /\ UNCHANGED <<now, recs, active, completed, call, wf, sweep, gate, deliveries>>
    /\ UNCHANGED outside

\* ---- complete_workflow, statement by statement, for the thread t

\* Where the thread is once an exception has left complete_workflow or the
\* send_notification of the except clause.  Sentinel: the except clause of
\* _timeout_monitor_task, whose logger.error raises TypeError: the task ends.
\* Watcher (it is in the except clause of process_with_agent): the exception
\* leaves asyncio.run and process_file logs it.
AfterRaise(t) == IF t = Sentinel THEN "dead" ELSE "idle"

\* Where the caller of complete_workflow continues once the call has returned.
\* Watcher, try body: back to the handler.  Watcher, except clause: the second
\* send_notification of process_with_agent.  Sentinel: timed_out.append.
AfterReturn_retry(t, status) ==
    IF t = Sentinel THEN "s_append"
    ELSE IF status = FAILED THEN "agent"
    ELSE "idle"

AfterReturn_handler(t, status) == IF status = FAILED THEN "x_notify" ELSE "idle"

AfterReturn(t, status) ==
    IF t = Sentinel THEN "s_append"
    ELSE IF status = FAILED THEN "x_notify"
    ELSE "idle"

\* process_with_agent and the handler are over once the watcher is idle again:
\* it holds no workflow.
Handled(f, t, where) == IF where = "idle" THEN [f EXCEPT ![t] = 0] ELSE f

\* if workflow_id not in self.active_workflows: warning, return None
c_check(t) ==
    /\ pc[t] = "c_check"
    /\ IF IsActive(active, call[t].id)
       THEN /\ pc' = [pc EXCEPT ![t] = "c_pop"]
            /\ call' = call
       ELSE /\ pc' = [pc EXCEPT ![t] = AfterReturn(t, call[t].status)]
            /\ call' = [call EXCEPT ![t] = Returned("notfound")]
    /\ wf' = Handled(wf, t, pc'[t])
    /\ UNCHANGED <<now, recs, active, completed, sweep, gate, deliveries>>
    /\ UNCHANGED outside

\* metrics = self.active_workflows.pop(workflow_id); metrics.end_time = now;
\* metrics.duration_seconds = end_time - start_time.  From here until the
\* append the record is in neither collection, and it carries an end time
\* while its status is still RUNNING.
c_pop(t) ==
    /\ pc[t] = "c_pop"
    /\ active[call[t].id] # 0
    /\ call' = [call EXCEPT ![t].ref = active[call[t].id]]
    /\ active' = PopActive(active, call[t].id)
    /\ recs' = [recs EXCEPT ![active[call[t].id]] = Stamp(@, now)]
    /\ pc' = [pc EXCEPT ![t] = "c_final"]
    /\ UNCHANGED <<now, completed, wf, sweep, gate, deliveries>>
    /\ UNCHANGED outside

\* The pop finds no entry (another thread removed it after this thread's
\* membership test): KeyError.  In the try body of process_with_agent the
\* except clause takes it and calls complete_workflow(id, FAILED, str(e)); in
\* the except clause it leaves process_with_agent and asyncio.run, and
\* process_file logs it; in the sentinel it reaches the except clause of
\* _timeout_monitor_task, whose logger.error(..., error=...) is a call of the
\* standard-library logger with a keyword it does not take: TypeError, and the
\* task ends.
c_pop_KeyError(t) ==
    /\ pc[t] = "c_pop"
    /\ active[call[t].id] = 0
    /\ IF t # Sentinel /\ call[t].status = COMPLETED
       THEN /\ pc' = [pc EXCEPT ![t] = "c_check"]
            /\ call' = [call EXCEPT ![t] = NewCall(call[t].id, FAILED, KeyErrorMsg, FALSE,
                                                     call[t].invocation)]
       ELSE /\ pc' = [pc EXCEPT ![t] = AfterRaise(t)]
            /\ call' = [call EXCEPT ![t] = Returned("raised")]
    /\ wf' = Handled(wf, t, pc'[t])
    /\ UNCHANGED <<now, recs, active, completed, sweep, gate, deliveries>>
    /\ UNCHANGED outside

\* metrics.status = status; metrics.error_message = error_message;
\* self.completed_workflows.append(metrics); for FAILED | TIMEOUT
\* await send_notification(ERROR | CRITICAL, ...), whose result is dropped;
\* return metrics
c_final(t) ==
    /\ pc[t] = "c_final"
    /\ recs' = [recs EXCEPT ![call[t].ref] = Finalize(@, call[t].status, call[t].err)]
    /\ completed' = append(completed, call[t].ref)
    /\ gate' = Notify(gate, call[t].ref, NotifyLevel(call[t].status))
    /\ deliveries' = Deliver(deliveries, call[t].ref, NotifyLevel(call[t].status),
                             notification_config, webhook)
    /\ IF Raises(NotifyLevel(call[t].status), notification_config, webhook)
       THEN /\ call' = [call EXCEPT ![t] = Returned("raised")]
            /\ pc' = [pc EXCEPT ![t] = AfterRaise(t)]
       ELSE /\ call' = [call EXCEPT ![t] = Returned("found")]
            /\ pc' = [pc EXCEPT ![t] = AfterReturn(t, call[t].status)]
    /\ wf' = Handled(wf, t, pc'[t])
    /\ UNCHANGED <<now, active, sweep>>
    /\ UNCHANGED outside

\* process_with_agent, except clause, after complete_workflow(id, FAILED):
\* await notification_service.send_notification(ERROR, ...) for this workflow
x_notify(w) ==
    /\ pc[w] = "x_notify"
    /\ gate' = Notify(gate, wf[w], {"error"})
    /\ deliveries' = Deliver(deliveries, wf[w], {"error"}, notification_config, webhook)
    /\ pc' = [pc EXCEPT ![w] = "idle"]
    /\ wf' = [wf EXCEPT ![w] = 0]
    /\ UNCHANGED <<now, recs, active, completed, call, sweep>>
    /\ UNCHANGED outside

\* ---- the sentinel: _timeout_monitor_task and check_timeouts

RECURSIVE Items(_, _)
\* list(self.active_workflows.items()): the entries, as <<id, record>>
Items(a, ids) ==
    IF ids = {} THEN <<>>
    ELSE LET i == CHOOSE x \in ids : \A y \in ids : x <= y
         IN  (IF a[i] # 0 THEN <<<<i, a[i]>>>> ELSE <<>>) \o Items(a, ids \ {i})

\* The sleep is over: timed_out = [], current_time = now, the snapshot
s_begin ==
    /\ pc[Sentinel] = "sleep"
    /\ now >= sweep.wake
    /\ sweep' = [snap |-> Items(active, IDs), idx |-> 1, timed_out |-> <<>>,
                 current_time |-> now, wake |-> 0]
    /\ pc' = [pc EXCEPT ![Sentinel] = "s_loop"]
    /\ UNCHANGED <<now, recs, active, completed, call, wf, gate, deliveries>>
    /\ UNCHANGED outside

\* One iteration: duration = current_time - metrics.start_time; over the
\* deadline: await complete_workflow(workflow_id, TIMEOUT)
s_loop ==
    /\ pc[Sentinel] = "s_loop"
    /\ sweep.idx <= Len(sweep.snap)
    /\ LET item == sweep.snap[sweep.idx]
       IN  IF Exceeded(recs[item[2]].start_time, sweep.current_time)
           THEN /\ call' = [call EXCEPT ![Sentinel] =
                                 NewCall(item[1], TIMEOUT, NoError, FALSE, "none")]
                /\ pc' = [pc EXCEPT ![Sentinel] = "c_check"]
                /\ sweep' = sweep
           ELSE /\ sweep' = [sweep EXCEPT !.idx = @ + 1]
                /\ UNCHANGED <<pc, call>>
    /\ UNCHANGED <<now, recs, active, completed, wf, gate, deliveries>>
    /\ UNCHANGED outside

\* timed_out.append(workflow_id), whatever complete_workflow returned
s_append ==
    /\ pc[Sentinel] = "s_append"
    /\ sweep' = [sweep EXCEPT !.timed_out = Append(@, sweep.snap[sweep.idx][1]),
                              !.idx = @ + 1]
    /\ pc' = [pc EXCEPT ![Sentinel] = "s_loop"]
    /\ UNCHANGED <<now, recs, active, completed, call, wf, gate, deliveries>>
    /\ UNCHANGED outside

\* The loop is over with nothing timed out: await asyncio.sleep(30)
s_sleep ==
    /\ pc[Sentinel] = "s_loop"
    /\ sweep.idx > Len(sweep.snap)
    /\ sweep.timed_out = <<>>
    /\ sweep' = [NoSweep EXCEPT !.wake = now + CHECK_INTERVAL]
    /\ pc' = [pc EXCEPT ![Sentinel] = "sleep"]
    /\ UNCHANGED <<now, recs, active, completed, call, wf, gate, deliveries>>
    /\ UNCHANGED outside

\* The loop is over with a non-empty timed_out: logger.warning("Workflows
\* timed out", timed_out_count=..., workflow_ids=...).  logger is the
\* standard-library logger (the module rebinds the name after the structlog
\* one), which takes no such keywords: TypeError.  The except clause of the
\* task calls logger.error(..., error=str(e), exc_info=True): TypeError again,
\* raised inside the handler, so it leaves the while loop and the task ends.
s_report_TypeError ==
    /\ pc[Sentinel] = "s_loop"
    /\ sweep.idx > Len(sweep.snap)
    /\ sweep.timed_out # <<>>
    /\ pc' = [pc EXCEPT ![Sentinel] = "dead"]
    /\ UNCHANGED <<now, recs, active, completed, call, wf, sweep, gate, deliveries>>
    /\ UNCHANGED outside

\* ---- the health surface, read-only, on the main event loop

\* WorkflowMonitor.get_health_status: the two counts
get_health_status ==
    [active_workflows |-> ActiveCount, completed_workflows |-> Len(completed)]

\* A health request is served between two steps of the sentinel, which shares
\* the event loop: while it sleeps, while it awaits inside complete_workflow,
\* or after the task has ended.  The watcher threads may be anywhere.
HealthServed == pc[Sentinel] \in {"sleep", "s_append", "dead"}

\* The records in the active map.  The dict keeps them in insertion order,
\* which is the order of their creation.
ActiveRefs == {active[i] : i \in {j \in IDs : active[j] # 0}}

\* A dict iterator that never looks at the dict's size.
dict_next_unchecked(q) ==
    IF ActiveRefs \ q.seen = {} THEN [error |-> FALSE, ref |-> 0]
    ELSE [error |-> FALSE, ref |-> CHOOSE r \in ActiveRefs \ q.seen :
                                      \A x \in ActiveRefs \ q.seen : r <= x]

\* next() of the iterator over active_workflows.items() / .values().
\* RuntimeError when the dict's size is not the size it had when the iterator
\* was made ("dictionary changed size during iteration"), or when an entry is
\* left after as many were yielded as the dict had ("dictionary keys changed
\* during iteration"); else the next record in insertion order; else
\* StopIteration (ref 0).
dict_next(q) ==
    IF ActiveCount # q.used THEN [error |-> TRUE, ref |-> 0]
    ELSE IF ActiveRefs \ q.seen = {} THEN [error |-> FALSE, ref |-> 0]
    ELSE IF Cardinality(q.seen) >= q.used THEN [error |-> TRUE, ref |-> 0]
    ELSE [error |-> FALSE, ref |-> CHOOSE r \in ActiveRefs \ q.seen :
                                      \A x \in ActiveRefs \ q.seen : r <= x]

\* min(values, key=lambda w: w.start_time): the first, in iteration order, of
\* the records with the least start time.
MinStart(refs) ==
    CHOOSE r \in refs :
      \A x \in refs : \/ recs[r].start_time < recs[x].start_time
                      \/ recs[r].start_time = recs[x].start_time /\ r <= x

\* GET /workflows/active: the list comprehension makes its iterator over
\* workflow_monitor.active_workflows.items().
q_active_workflows ==
    /\ query.kind = "none"
    /\ query' = [NoQuery EXCEPT !.kind = "active", !.at = "iter", !.used = ActiveCount]
    /\ UNCHANGED <<core, setup>>

\* GET /health/detailed: get_health_status evaluates len(self.active_workflows)
q_detailed_health ==
    /\ query.kind = "none"
    /\ query' = [NoQuery EXCEPT !.kind = "health", !.at = "len",
                                 !.active_workflows = ActiveCount]
    /\ UNCHANGED <<core, setup>>

\* len(self.completed_workflows)
q_len ==
    /\ query.at = "len"
    /\ query' = [query EXCEPT !.at = "test", !.completed_workflows = Len(completed)]
    /\ UNCHANGED <<core, setup>>

\* ... if self.active_workflows else None
q_test ==
    /\ query.at = "test"
    /\ query' = IF ActiveCount = 0
                 THEN [query EXCEPT !.at = "done", !.res = "ok"]
                 ELSE [query EXCEPT !.at = "min"]
    /\ UNCHANGED <<core, setup>>

\* min(self.active_workflows.values(), ...) makes its iterator
q_min ==
    /\ query.at = "min"
    /\ query' = [query EXCEPT !.at = "iter", !.used = ActiveCount]
    /\ UNCHANGED <<core, setup>>

\* One next() of the iterator.  At StopIteration the listing is complete, and
\* min returns its record (ValueError when it was given nothing) whose
\* start_time is reported.
q_next ==
    /\ query.at = "iter"
    /\ LET n == dict_next(query)
       IN  query' =
             IF n.error THEN [query EXCEPT !.at = "done", !.res = "RuntimeError"]
             ELSE IF n.ref # 0
             THEN [query EXCEPT !.seen = @ \cup {n.ref}, !.listing = Append(@, n.ref)]
             ELSE IF query.kind = "active" THEN [query EXCEPT !.at = "done", !.res = "ok"]
             ELSE IF query.seen = {} THEN [query EXCEPT !.at = "done", !.res = "ValueError"]
             ELSE [query EXCEPT !.at = "done", !.res = "ok",
                                !.of = MinStart(query.seen),
                                !.oldest_active_workflow =
                                    recs[MinStart(query.seen)].start_time]
    /\ UNCHANGED <<core, setup>>

recent_first(h) == SubSeq(h, 1, IF Len(h) > Last THEN Last ELSE Len(h))

\* completed_workflows[-10:]
recent(h) == SubSeq(h, IF Len(h) > Last THEN Len(h) - Last + 1 ELSE 1, Len(h))

\* What /workflows/recent takes from a record (the fields the model has).
RecentEntry(m) ==
    [workflow_id |-> m.workflow_id, status |-> m.status,
     duration_seconds |-> m.duration_seconds, end_time |-> m.end_time]

\* GET /workflows/recent: the slice is a copy, made in one step; the answer is
\* built from the records of the copy.
recent_workflows ==
    /\ query.kind = "none"
    /\ query' = [NoQuery EXCEPT
                   !.kind = "recent", !.at = "done", !.res = "ok",
                   !.listing = recent(completed),
                   !.recent_workflows =
                       [k \in 1..Len(recent(completed)) |->
                          RecentEntry(recs[recent(completed)[k]])]]
    /\ UNCHANGED <<core, setup>>

\* The handler returns (FastAPI sends the answer, or a 500 for an exception).
q_return ==
    /\ query.at = "done"
    /\ query' = NoQuery
    /\ UNCHANGED <<core, setup>>

\* Every step but the start of a workflow.
Proceed ==
    \/ Tick
    \/ \E w \in Watchers : AgentReturns(w)
    \/ \E w \in Watchers : AgentRaises(w)
    \/ \E w \in Watchers : AgentHangs(w)
    \/ \E t \in Threads : c_check(t)
    \/ \E t \in Threads : c_pop(t)
    \/ \E t \in Threads : c_pop_KeyError(t)
    \/ \E t \in Threads : c_final(t)
    \/ \E w \in Watchers : x_notify(w)
    \/ s_begin
    \/ s_loop
    \/ s_append
    \/ s_sleep
    \/ s_report_TypeError

Next ==
    \/ \E w \in Watchers : process_file(w)
    \/ Proceed

Spec == Init /\ [][Next]_vars

\* The event loop runs the sentinel task whenever it can take a step, every
\* thread that is not blocked in an agent call is scheduled, and time passes.
\* Nothing makes an agent call return.
SentinelStep ==
    \/ s_begin
    \/ s_loop
    \/ s_append
    \/ s_sleep
    \/ s_report_TypeError
    \/ c_check(Sentinel)
    \/ c_pop(Sentinel)
    \/ c_pop_KeyError(Sentinel)
    \/ c_final(Sentinel)

WatcherStep(w) ==
    \/ c_check(w)
    \/ c_pop(w)
    \/ c_pop_KeyError(w)
    \/ c_final(w)
    \/ x_notify(w)

FairSpec ==
    /\ Spec
    /\ WF_vars(Tick)
    /\ WF_vars(SentinelStep)
    /\ \A w \in Watchers : WF_vars(WatcherStep(w))

\* The program in the runs where no agent call ever returns: the observers
\* start workflows and stay in their agent calls, and only the sentinel task
\* completes workflows.  The event loop runs the sentinel task whenever it can
\* take a step; nothing is assumed of the observers or of the clock.
NextHung ==
    \/ Tick
    \/ \E w \in Watchers : process_file(w)
    \/ \E w \in Watchers : AgentHangs(w)
    \/ c_check(Sentinel)
    \/ c_pop(Sentinel)
    \/ c_final(Sentinel)
    \/ s_begin
    \/ s_loop
    \/ s_append
    \/ s_sleep
    \/ s_report_TypeError

SpecHung == Init /\ [][NextHung]_vars

FairSpecHung == SpecHung /\ WF_vars(SentinelStep)

\* The program with one observer handling one file event, under every
\* notification configuration and every behaviour of the webhook endpoint.
InitNotify ==
    /\ InitCore
    /\ notification_config \in NotificationConfigs
    /\ webhook \in IF notification_config.webhook_url \in {NoUrl, ""}
                   THEN {NoEndpoint} ELSE Endpoints
    /\ HandlerAside
    /\ Started
    /\ NoRequest
    /\ NotStopping

Observer1 == CHOOSE w \in Watchers : \A v \in Watchers : w <= v

process_first_file == recs = <<>> /\ process_file(Observer1)

NextNotify ==
    \/ Tick
    \/ process_first_file
    \/ AgentReturns(Observer1)
    \/ AgentRaises(Observer1)
    \/ AgentHangs(Observer1)
    \/ \E t \in {Sentinel, Observer1} : c_check(t)
    \/ \E t \in {Sentinel, Observer1} : c_pop(t)
    \/ \E t \in {Sentinel, Observer1} : c_pop_KeyError(t)
    \/ \E t \in {Sentinel, Observer1} : c_final(t)
    \/ x_notify(Observer1)
    \/ s_begin
    \/ s_loop
    \/ s_append
    \/ s_sleep
    \/ s_report_TypeError

SpecNotify == InitNotify /\ [][NextNotify]_vars

\* send_notification on its own: any caller, any level, under every
\* configuration and endpoint (run sends INFO at startup; record 0 stands for
\* a call that is about no workflow).
notify ==
    /\ BagCardinality(deliveries) < MaxCalls
    /\ \E level \in Levels :
         /\ gate' = Notify(gate, 0, {level})
         /\ deliveries' = Deliver(deliveries, 0, {level}, notification_config, webhook)
    /\ UNCHANGED <<now, recs, active, completed, pc, call, wf, sweep>>
    /\ UNCHANGED outside

SpecGate == InitNotify /\ [][notify]_vars

\* One handler on its own: any zone rule, any events, the file system
\* answering the size probe in any way.
InitRoute ==
    /\ InitCore
    /\ notification_config = DefaultNotificationConfig
    /\ webhook = NoEndpoint
    /\ drop_zone \in Zones
    /\ event = NoEvent
    /\ routed = <<>>
    /\ Started
    /\ NoRequest
    /\ NotStopping

\* The observer thread gives the handler an event: on_created, on_modified,
\* on_deleted or on_moved, then process_file; a routed path is the file_path
\* of the PromptArgs with which process_with_agent starts one workflow.
dispatch ==
    /\ Len(routed) < MaxRouted
    /\ \E e \in FileSystemEvents, probe \in Probes :
         /\ event' = Outcome(e, handle(drop_zone, e, probe))
         /\ routed' = IF handle(drop_zone, e, probe) = "routed"
                       THEN Append(routed, subject(e)) ELSE routed
    /\ UNCHANGED <<core, notification_config, webhook, drop_zone, config, observers,
                   startup, query, shutdown>>

SpecRoute == InitRoute /\ [][dispatch]_vars

\* The process from its start: any drops.yaml, any directories.
InitStartup ==
    /\ InitCore
    /\ notification_config = DefaultNotificationConfig
    /\ webhook = NoEndpoint
    /\ HandlerAside
    /\ config \in Configs
    /\ observers = <<>>
    /\ startup = [phase |-> "load", zone |-> 0]
    /\ NoRequest
    /\ NotStopping

\* run: self.load_config().  A missing file or a rule that does not validate
\* raises, and the exception leaves run and main: the process ends.
load_config ==
    /\ startup.phase = "load"
    /\ startup' =
         IF ~config.file \/ \E i \in 1..Len(config.drop_zones) : ~Valid(config.drop_zones[i])
         THEN [phase |-> "aborted", zone |-> 0]
         ELSE [phase |-> "start", zone |-> 1]
    /\ UNCHANGED <<core, notification_config, webhook, drop_zone, event, routed,
                   config, observers, query, shutdown>>

\* start: one iteration of the loop over the zones.  zone_paths =
\* _expand_zone_dirs(drop_zone); none: a warning, continue; else an observer
\* is scheduled and started for each path.
start_zone ==
    /\ startup.phase = "start"
    /\ startup.zone <= Len(config.drop_zones)
    /\ \E mk \in [1..Len(config.drop_zones[startup.zone].zone_dirs) -> BOOLEAN] :
         LET zone_paths == expand_zone_dirs(config.drop_zones[startup.zone], mk)
         IN  observers' = observers \o
               [k \in 1..Len(zone_paths) |-> <<startup.zone, zone_paths[k]>>]
    /\ startup' = [startup EXCEPT !.zone = @ + 1]
    /\ UNCHANGED <<core, notification_config, webhook, drop_zone, event, routed, config,
                   query, shutdown>>

\* start returns, with observers or with the warning that none was started;
\* run creates the sentinel and health tasks and stays in its loop.
start_returns ==
    /\ startup.phase = "start"
    /\ startup.zone > Len(config.drop_zones)
    /\ startup' = [phase |-> "running", zone |-> 0]
    /\ UNCHANGED <<core, notification_config, webhook, drop_zone, event, routed,
                   config, observers, query, shutdown>>

NextStartup ==
    \/ load_config
    \/ start_zone
    \/ start_returns

SpecStartup == InitStartup /\ [][NextStartup]_vars

\* The same program in the runs where no two uuid4 prefixes coincide.
UniqueIds ==
    \A q \in 1..Len(recs), r \in 1..Len(recs) :
      q # r => recs[q].workflow_id # recs[r].workflow_id

process_file_fresh(w) == process_file(w) /\ UniqueIds'

NextUnique ==
    \/ \E w \in Watchers : process_file_fresh(w)
    \/ Proceed

SpecUnique == Init /\ [][NextUnique]_vars

FairSpecUnique ==
    /\ SpecUnique
    /\ WF_vars(Tick)
    /\ WF_vars(SentinelStep)
    /\ \A w \in Watchers : WF_vars(WatcherStep(w))

\* The health server and the observer threads: requests for /workflows/active
\* and /health/detailed served on the main thread, a statement at a time,
\* while the observers start workflows and complete them as their agents
\* return.  The handlers do not await, so the sentinel, a task of the same
\* loop, takes no step while a request is served; it is left asleep here.
NextHealth ==
    \/ Tick
    \/ \E w \in Watchers : process_file(w)
    \/ \E w \in Watchers : AgentReturns(w)
    \/ \E w \in Watchers : c_check(w)
    \/ \E w \in Watchers : c_pop(w)
    \/ \E w \in Watchers : c_pop_KeyError(w)
    \/ \E w \in Watchers : c_final(w)
    \/ \E w \in Watchers : x_notify(w)
    \/ q_active_workflows
    \/ q_detailed_health
    \/ q_len
    \/ q_test
    \/ q_min
    \/ q_next
    \/ q_return

SpecHealth == Init /\ [][NextHealth]_vars

\* The record of the i-th workflow of a run of n workflows, of which the f-th
\* failed and the t-th timed out, each completed i seconds after its start.
Past(i, f, t) ==
    Finalize(Stamp(WorkflowMetrics(((i - 1) % NumIds) + 1, 0), i),
             IF i = t THEN TIMEOUT ELSE IF i = f THEN FAILED ELSE COMPLETED,
             IF i = f /\ i # t THEN AgentError ELSE NoError)

\* /workflows/recent on its own: the process has completed n workflows, one
\* after the other, and its first observer may be in the agent call of one more.
InitRecent ==
    /\ \E n \in 0..MaxHistory, running \in BOOLEAN : \E f \in 0..n, t \in 0..n :
         /\ now = n
         /\ recs = [i \in 1..n |-> Past(i, f, t)]
                      \o (IF running THEN <<WorkflowMetrics(1, n)>> ELSE <<>>)
         /\ completed = [i \in 1..n |-> i]
         /\ active = [i \in IDs |-> IF running /\ i = 1 THEN n + 1 ELSE 0]
         /\ pc = [th \in Threads |->
                    IF th = Sentinel THEN "sleep"
                    ELSE IF running /\ th = Observer1 THEN "agent" ELSE "idle"]
         /\ wf = [w \in Watchers |-> IF running /\ w = Observer1 THEN n + 1 ELSE 0]
    /\ call = [th \in Threads |-> NoCall]
    /\ sweep = NoSweep
    /\ gate = EmptyBag
    /\ deliveries = EmptyBag
    /\ notification_config = DefaultNotificationConfig
    /\ webhook = NoEndpoint
    /\ HandlerAside
    /\ Started
    /\ NoRequest
    /\ NotStopping

NextRecent ==
    \/ recent_workflows
    \/ q_return

SpecRecent == InitRecent /\ [][NextRecent]_vars

\* ---- AgenticDropZone.run's finally clause and AgenticDropZone.stop

\* What a main-thread step of run leaves alone besides the monitor.
aside == <<notification_config, webhook, drop_zone, event, routed, config, startup, query>>

\* The main task runs between two steps of the other tasks of its loop: the
\* sentinel task is at an await, or over.
MainRuns == pc[Sentinel] \in {"sleep", "s_append", "dead", "cancelled"}

\* BaseObserver.run: while self.should_keep_running(): dispatch_events(...).
\* The thread takes an event, and calls the handler, only while its stop
\* event is not set.
observer_run(w) ==
    /\ w \notin shutdown.stopped
    /\ process_file(w)

\* The sentinel task, as long as no cancellation was requested of it.  (The
\* clock is left out of the runs of the shutdown: a sweep finds the active
\* records and none of them past its deadline.)
timeout_monitor_task ==
    /\ shutdown.timeout_task = "pending"
    /\ \/ s_begin
       \/ s_loop
       \/ s_sleep

\* server.serve() is over on its own (it returned, or it raised and the
\* except clause ran): the task is done, with a result or with an exception.
health_server_returns ==
    /\ shutdown.health_server_task = "pending"
    /\ MainRuns
    /\ query.kind = "none"
    /\ shutdown' = [shutdown EXCEPT !.health_server_task = "finished"]
    /\ UNCHANGED <<core, aside, observers>>

\* run leaves its main loop: the exception of the interrupt is raised at
\* 'await asyncio.sleep(1)'.  finally: timeout_task.cancel();
\* health_server_task.cancel(), which ask a task that is not done to take a
\* CancelledError at its await; then await asyncio.gather(...).
leave_loop ==
    /\ shutdown.at = "loop"
    /\ MainRuns
    /\ query.kind = "none"
    /\ shutdown' = [shutdown EXCEPT
                      !.at = "gather",
                      !.timeout_task = IF pc[Sentinel] = "dead" THEN "finished"
                                       ELSE "cancelling",
                      !.health_server_task = IF @ = "pending" THEN "cancelling" ELSE @]
    /\ UNCHANGED <<core, aside, observers>>

\* The loop resumes the sentinel task with the CancelledError.  It is not an
\* Exception: the except clause of _timeout_monitor_task lets it pass and the
\* task ends.
timeout_task_cancelled ==
    /\ shutdown.timeout_task = "cancelling"
    /\ pc[Sentinel] \in {"sleep", "s_append"}
    /\ pc' = [pc EXCEPT ![Sentinel] = "cancelled"]
    /\ shutdown' = [shutdown EXCEPT !.timeout_task = "cancelled"]
    /\ UNCHANGED <<now, recs, active, completed, call, wf, sweep, gate, deliveries>>
    /\ UNCHANGED <<aside, observers>>

\* The same for the health-server task, inside server.serve().
health_server_task_cancelled ==
    /\ shutdown.health_server_task = "cancelling"
    /\ shutdown' = [shutdown EXCEPT !.health_server_task = "cancelled"]
    /\ UNCHANGED <<core, aside, observers>>

\* gather(..., return_exceptions=True) returns once both tasks are done, and
\* run calls self.stop().
gather_returns ==
    /\ shutdown.at = "gather"
    /\ shutdown.timeout_task \in {"cancelled", "finished"}
    /\ shutdown.health_server_task \in {"cancelled", "finished"}
    /\ shutdown' = [shutdown EXCEPT !.at = "stop", !.i = 1]
    /\ UNCHANGED <<core, aside, observers>>

\* stop, first loop: observer.stop() sets the stop event of the i-th
\* observer's thread and returns.
observer_stop ==
    /\ shutdown.at = "stop"
    /\ shutdown' =
         IF shutdown.i <= Len(observers)
         THEN [shutdown EXCEPT !.stopped = @ \cup {shutdown.i}, !.i = @ + 1]
         ELSE [shutdown EXCEPT !.at = "join", !.i = 1]
    /\ UNCHANGED <<core, aside, observers>>

\* The observer's thread is back in its loop, between two events, finds its
\* stop event set and ends.  Inside a handler call it does not look at it.
observer_ends(w) ==
    /\ w \in shutdown.stopped \ shutdown.ended
    /\ pc[w] = "idle"
    /\ shutdown' = [shutdown EXCEPT !.ended = @ \cup {w}]
    /\ UNCHANGED <<core, aside, observers>>

\* stop, second loop: observer.join(), a Thread.join without a timeout,
\* returns when the i-th observer's thread has ended.
observer_join ==
    /\ shutdown.at = "join"
    /\ shutdown.i <= Len(observers)
    /\ shutdown.i \in shutdown.ended
    /\ shutdown' = [shutdown EXCEPT !.i = @ + 1]
    /\ UNCHANGED <<core, aside, observers>>

\* stop, after its loops: self.observers.clear(), and stop returns to run.
stop_returns ==
    /\ shutdown.at = "join"
    /\ shutdown.i > Len(observers)
    /\ observers' = <<>>
    /\ shutdown' = [shutdown EXCEPT !.at = "stopped"]
    /\ UNCHANGED <<core, aside>>

\* The process with its observers at work, and run leaving its main loop at
\* any moment.
NextShutdown ==
    \/ \E w \in Watchers : observer_run(w)
    \/ \E w \in Watchers : AgentReturns(w)
    \/ \E w \in Watchers : AgentRaises(w)
    \/ \E w \in Watchers : AgentHangs(w)
    \/ \E w \in Watchers : c_check(w)
    \/ \E w \in Watchers : c_pop(w)
    \/ \E w \in Watchers : c_pop_KeyError(w)
    \/ \E w \in Watchers : c_final(w)
    \/ \E w \in Watchers : x_notify(w)
    \/ timeout_monitor_task
    \/ health_server_returns
    \/ leave_loop
    \/ timeout_task_cancelled
    \/ health_server_task_cancelled
    \/ gather_returns
    \/ observer_stop
    \/ \E w \in Watchers : observer_ends(w)
    \/ observer_join
    \/ stop_returns

SpecShutdown == Init /\ [][NextShutdown]_vars

\* The main task.
MainStep ==
    \/ gather_returns
    \/ observer_stop
    \/ observer_join
    \/ stop_returns

\* The agent invocation of the observer's event ends, or never does.
AgentStep(w) ==
    \/ AgentReturns(w)
    \/ AgentRaises(w)
    \/ AgentHangs(w)

\* Every thread and every task that can take a step is scheduled; an agent
\* invocation returns, raises, or is one that never returns.
FairSpecShutdown ==
    /\ SpecShutdown
    /\ WF_vars(MainStep)
    /\ WF_vars(timeout_task_cancelled)
    /\ WF_vars(health_server_task_cancelled)
    /\ \A w \in Watchers :
         /\ WF_vars(AgentStep(w))
         /\ WF_vars(WatcherStep(w))
         /\ WF_vars(observer_ends(w))

\* ---- vocabulary of the properties

Created == 1..Len(recs)

InActive(r) == \E i \in IDs : active[i] = r

InCompleted(r) == \E k \in 1..Len(completed) : completed[k] = r

Entries(r) == Cardinality({k \in 1..Len(completed) : completed[k] = r})

GateCalls(r) == CopiesIn(<<r, "error">>, gate) + CopiesIn(<<r, "critical">>, gate)

\* The thread t takes the step that ends its membership test.
Tested(t) == pc[t] = "c_check" /\ pc'[t] # "c_check"

\* The agent call of the record r never returns.
Hung(r) == \E w \in Watchers : pc[w] = "hung" /\ wf[w] = r

\* ---- C1
\* C1: when the normal path (a watcher thread) and the sentinel both call
\* complete for one id, exactly one of them removes the record and the other
\* returns 'not found': the two are never both past the membership test, and
\* neither finds the entry gone at its pop (which raises KeyError).
C1_OneCallerPassesTheTest ==
    \A w \in Watchers :
      (pc[w] \in {"c_check", "c_pop"} /\ pc[Sentinel] \in {"c_check", "c_pop"}
         /\ call[w].id = call[Sentinel].id)
      => /\ ~(pc[w] = "c_pop" /\ pc[Sentinel] = "c_pop")
         /\ pc[w] = "c_pop" => active[call[w].id] # 0
         /\ pc[Sentinel] = "c_pop" => active[call[Sentinel].id] # 0

\* ---- C2
\* C2: a record's terminal status is set once: a record that carries a terminal
\* status (it is then in the completed history) keeps its status, end time,
\* duration and error message, and its place in the history, in every later
\* step, whoever calls complete for its id.
C2_TerminalSetOnce ==
    [][\A r \in Created :
         recs[r].status \in Terminal =>
           /\ InCompleted(r)
           /\ recs'[r] = recs[r]
           /\ Entries(r)' = Entries(r)]_vars

\* The agent of a workflow fails after the sentinel has marked the workflow
\* timed out: the late complete(id, FAILED) has come back 'not found'.
C2_Witness ==
    \E w \in Watchers :
      /\ pc[w] = "x_notify"
      /\ call[w].res = "notfound"
      /\ recs[wf[w]].status = TIMEOUT
      /\ recs[wf[w]].end_time # NoTime

C4_OneNotification ==
    \A r \in Created :
      /\ GateCalls(r) <= 1
      /\ recs[r].status \in {FAILED, TIMEOUT} => GateCalls(r) = 1
      /\ recs[r].status \in {RUNNING, COMPLETED} => GateCalls(r) = 0

\* ---- C5
\* C5: complete called with an id that is not in the active set returns 'not
\* found': it does not go on to the pop (which would raise), invokes no
\* notification, and leaves the active set, the history and every record as
\* they were.
C5_UnknownIdNotFound ==
    [][\A t \in Threads :
         (Tested(t) /\ active[call[t].id] = 0)
         => /\ call'[t].res = "notfound"
            /\ pc'[t] \notin {"c_pop", "c_final", "dead"}
            /\ gate' = gate
            /\ active' = active
            /\ completed' = completed
            /\ recs' = recs]_vars

\* The agent returned after the sentinel had finalized its workflow: the
\* normal-path complete(id, COMPLETED) has returned 'not found' (no two
\* workflows share an id here).
C5_Witness ==
    /\ UniqueIds
    /\ \E w \in Watchers : pc[w] = "idle" /\ call[w].res = "notfound"
    /\ \E r \in Created : recs[r].status = TIMEOUT

\* ---- C6
\* C6: in every state, every record that was created is in exactly one of the
\* active set and the completed history.
C6_ActiveXorCompleted ==
    \A r \in Created : InActive(r) # InCompleted(r)

\* ---- C7
\* C7: whenever a health request is served, the active count plus the completed
\* count it reports equals the number of starts made so far.
C7_HealthCountsAddUp ==
    HealthServed =>
      get_health_status.active_workflows + get_health_status.completed_workflows
        = Len(recs)

\* ---- C8
\* C8: start mints an id no other workflow has, creates a record with status
\* Running and start time now, and inserts it into the active set without
\* replacing or removing a record that is there.
C8_StartUniqueNoReplace ==
    [][\A w \in Watchers :
         (pc[w] = "idle" /\ pc'[w] = "agent")
         => LET r == Len(recs') IN
            /\ r = Len(recs) + 1
            /\ recs'[r].status = RUNNING
            /\ recs'[r].start_time = now
            /\ active'[recs'[r].workflow_id] = r
            /\ \A q \in Created : recs[q].workflow_id # recs'[r].workflow_id
            /\ \A i \in IDs : active[i] # 0 => active'[i] = active[i]]_vars

\* ---- C9
\* C9: every workflow whose agent call never returns is finalized as TimedOut by
\* a sentinel sweep after its deadline.  In finite form: a never-returning
\* workflow that is past its deadline either has been finalized as TimedOut,
\* with a duration, or still has a running sentinel task to sweep it (stated
\* for the runs in which no complete call of the sentinel raised).
C9_HungTimedOutBySentinel ==
    \A r \in Created :
      (Hung(r) /\ now - recs[r].start_time > timeout_seconds
         /\ call[Sentinel].res # "raised")
      => \/ /\ InCompleted(r)
            /\ recs[r].status = TIMEOUT
            /\ recs[r].duration_seconds # NoTime
         \/ pc[Sentinel] # "dead"

\* Once a never-returning workflow is active and the sentinel task has ended,
\* it stays so: nothing finalizes that workflow any more.
C9_Stranded(r) ==
    r \in Created /\ Hung(r) /\ InActive(r) /\ pc[Sentinel] = "dead"

C9_StrandedForever ==
    [][\A r \in Refs : C9_Stranded(r) => C9_Stranded(r)']_vars

\* ---- C10
\* C10, as claimed: a workflow whose agent call returned successfully before its
\* elapsed time exceeded the deadline is never marked TimedOut.
C10_ReturnedInTimeNeverTimedOut ==
    \A w \in Watchers :
      (wf[w] # 0 /\ call[w].status = COMPLETED /\ call[w].intime)
      => recs[wf[w]].status # TIMEOUT

\* C10, amended: the sentinel calls complete(id, TIMEOUT) only for a record of
\* its snapshot whose elapsed time at the sweep is strictly greater than the
\* deadline; a record the normal path has removed from the active set is
\* finalized by the normal path alone, and a record finalized as Completed or
\* Failed is never changed to TimedOut.
C10_TimedOutOnlyPastDeadline ==
    [][/\ (pc[Sentinel] = "s_loop" /\ pc'[Sentinel] = "c_check")
          => sweep.current_time - recs[sweep.snap[sweep.idx][2]].start_time
               > timeout_seconds
       /\ \A w \in Watchers :
            pc[w] = "c_final" =>
              /\ recs[call[w].ref].status = RUNNING
              /\ pc'[w] # "c_final" => recs'[call[w].ref].status = call[w].status
       /\ \A r \in Created :
            recs[r].status \in {COMPLETED, FAILED} => recs'[r].status = recs[r].status]_vars

\* A sweep has passed over a record whose elapsed time was exactly the
\* deadline: no complete call was made for it and it is still active.
C10_Witness ==
    /\ pc[Sentinel] = "s_loop"
    /\ sweep.timed_out = <<>>
    /\ \E k \in 1..Len(sweep.snap) :
         /\ k < sweep.idx
         /\ sweep.current_time - recs[sweep.snap[k][2]].start_time = timeout_seconds
         /\ recs[sweep.snap[k][2]].status = RUNNING
         /\ InActive(sweep.snap[k][2])

\* ---- C11
\* C11: an error raised in a sentinel sweep (in check_timeouts, in complete, or
\* while the sweep's result is reported) is logged and the task sweeps again on
\* the next tick: the sentinel task never ends because of an error.
C11_SentinelNeverEnds == pc[Sentinel] # "dead"

\* ---- C12
\* C12: for every agent, the normal path calls complete(id, Completed) when the
\* agent invocation succeeded and complete(id, Failed, message) when it failed
\* (it raised, its subprocess could not be launched, or it exited non-zero), and
\* a workflow whose invocation failed is never recorded as Completed by the
\* normal path.
C12_StatusFollowsInvocation ==
    [][\A w \in Watchers :
         /\ (pc[w] = "agent" /\ pc'[w] = "c_check")
              => /\ call'[w].invocation = "success" => call'[w].status = COMPLETED
                 /\ call'[w].invocation = "failure"
                      => call'[w].status = FAILED /\ call'[w].err # NoError
         /\ (pc[w] = "c_final" /\ call[w].invocation = "failure")
              => recs'[call[w].ref].status # COMPLETED]_vars

\* ---- C13
\* C13: a delivery failure (unreachable webhook, transport error, non-2xx
\* answer) stays inside send_notification: whatever the configuration and the
\* endpoint, the complete call that finalizes a record returns it to its caller,
\* who continues as after any return, and the record has the call's status, the
\* end time and duration stamped at the pop, and one history entry; the
\* notification of the except clause changes no record and no history.
C13_DeliveryFailureContained ==
    [][/\ \A t \in Threads, r \in Created :
            (pc[t] = "c_final" /\ pc'[t] # "c_final" /\ r = call[t].ref)
            => /\ call'[t].res = "found"
               /\ pc'[t] = AfterReturn(t, call[t].status)
               /\ recs'[r].status = call[t].status
               /\ recs'[r].end_time = recs[r].end_time
               /\ recs'[r].end_time # NoTime
               /\ recs'[r].duration_seconds = recs[r].duration_seconds
               /\ Entries(r)' = 1
       /\ \A w \in Watchers :
            (pc[w] = "x_notify" /\ pc'[w] # "x_notify")
            => recs' = recs /\ completed' = completed /\ pc'[w] = "idle"]_vars

\* The endpoint does not take the POST, a Failed or TimedOut workflow has been
\* finalized, its notification was posted and failed, and the caller of
\* complete has the record back.
C13_Witness ==
    /\ webhook \in {"non-2xx", "transport error"}
    /\ \E r \in Created, l \in {"error", "critical"}, t \in Threads :
         /\ recs[r].status \in {FAILED, TIMEOUT}
         /\ Entries(r) = 1
         /\ recs[r].end_time # NoTime
         /\ CopiesIn(<<r, l, TRUE, "False">>, deliveries) >= 1
         /\ pc[t] \in {"x_notify", "s_append"}
         /\ call[t].res = "found"

\* ---- C14
\* C14: send_notification reaches the POST if and only if notifications are
\* enabled, a webhook URL is configured and the level is at least min_level in
\* the order info < warning < error < critical; otherwise it posts nothing and
\* returns False.  With min_level = error, error and critical are posted and
\* info and warning are not.
C14_Order == <<"info", "warning", "error", "critical">>

C14_AtLeast(level, min) ==
    \E i \in 1..Len(C14_Order), j \in 1..Len(C14_Order) :
      C14_Order[i] = level /\ C14_Order[j] = min /\ i >= j

C14_Configured ==
    notification_config.enabled /\ notification_config.webhook_url = "https://hook"

C14_PostsIffEnabledAndAtLeastMin ==
    \A e \in BagToSet(deliveries) :
      /\ e[3] <=> (C14_Configured /\ C14_AtLeast(e[2], notification_config.min_level))
      /\ ~e[3] => e[4] = "False"
      /\ (C14_Configured /\ notification_config.min_level = "error")
           => /\ e[2] \in {"error", "critical"} => e[3]
              /\ e[2] \in {"info", "warning"} => ~e[3]

\* min_level = error with a webhook: an error was posted, a warning was not.
C14_Witness ==
    /\ C14_Configured
    /\ notification_config.min_level = "error"
    /\ \E res \in {"True", "False"} : CopiesIn(<<0, "error", TRUE, res>>, deliveries) = 1
    /\ CopiesIn(<<0, "warning", FALSE, "False">>, deliveries) = 1

\* ---- C15
\* C15: the complete call that finalizes a record invokes send_notification
\* once with level error when the status is Failed, once with level critical
\* when it is TimedOut, and not at all when it is Completed; a complete call
\* that returns 'not found' invokes nothing.
C15_LevelFollowsStatus ==
    [][\A t \in Threads :
         /\ (pc[t] = "c_final" /\ pc'[t] # "c_final")
              => gate' = gate (+) SetToBag(
                   IF call[t].status = FAILED THEN {<<call[t].ref, "error">>}
                   ELSE IF call[t].status = TIMEOUT THEN {<<call[t].ref, "critical">>}
                   ELSE {})
         /\ (Tested(t) /\ call'[t].res = "notfound") => gate' = gate]_vars

\* A TimedOut record with its one critical invocation beside a Completed record
\* with none.
C15_Witness ==
    \E r \in Created, q \in Created :
      /\ recs[r].status = TIMEOUT
      /\ CopiesIn(<<r, "critical">>, gate) = 1
      /\ CopiesIn(<<r, "error">>, gate) = 0
      /\ recs[q].status = COMPLETED
      /\ GateCalls(q) = 0

\* ---- C16
\* C16: a callback on a watcher thread never changes the active map or the
\* completed history itself: every step that changes either is a step of the
\* event-loop thread, which also runs the sentinel and the health surface.
C16_OnlyEventLoopMutates ==
    [][(active' # active \/ completed' # completed)
         => \A w \in Watchers : pc'[w] = pc[w]]_vars

\* ---- C17
\* C17: no read sees a torn record: every record in the completed history has a
\* terminal status, an end time and a duration; every record in the active set
\* is Running with no end time and no duration; and no record a reader holds
\* (the records of the snapshot a sentinel sweep is iterating over) has an end
\* time while its status is still Running.
C17_NoTornRecord ==
    /\ \A k \in 1..Len(completed) :
         /\ recs[completed[k]].status \in Terminal
         /\ recs[completed[k]].end_time # NoTime
         /\ recs[completed[k]].duration_seconds # NoTime
    /\ \A i \in IDs :
         active[i] # 0 =>
           /\ recs[active[i]].status = RUNNING
           /\ recs[active[i]].end_time = NoTime
           /\ recs[active[i]].duration_seconds = NoTime
    /\ pc[Sentinel] = "s_loop" =>
         \A k \in 1..Len(sweep.snap) :
           k >= sweep.idx =>
             ~(recs[sweep.snap[k][2]].status = RUNNING
                 /\ recs[sweep.snap[k][2]].end_time # NoTime)

\* ---- C18
\* C18: an event given to a zone's handler starts a workflow if and only if it
\* is not a directory event, its type is in the zone's events and its file
\* path matches one of the zone's patterns; then exactly one workflow is
\* started, with that file path; otherwise none is started, and in no case
\* does the handler raise.
C18_Routes(e) ==
    /\ ~e.is_directory
    /\ e.event_type \in drop_zone.events
    /\ \E pattern \in drop_zone.file_patterns : Match(subject(e), pattern)

C18_StartsIffFilterPasses ==
    [][routed' # routed \/ event' # event
         => /\ event'.outcome # "raised"
            /\ IF C18_Routes(event')
               THEN routed' = Append(routed, subject(event'))
               ELSE routed' = routed]_vars

C20_MissingDir(rule) ==
    \E d \in 1..Len(rule.zone_dirs) :
      rule.zone_dirs[d] = "missing" /\ ~rule.create_zone_dir_if_not_exists

C20_ConfigurationError ==
    \/ ~config.file
    \/ \E i \in 1..Len(config.drop_zones) :
         ~Valid(config.drop_zones[i]) \/ C20_MissingDir(config.drop_zones[i])

C20_ConfigErrorIsFatal ==
    C20_ConfigurationError => (observers = <<>> /\ startup.phase # "running")

\* ---- C21
\* C21: a zone rule whose directory list, pattern list or event set is empty is
\* rejected when the configuration is loaded: once load_config has returned,
\* every rule has a directory, a pattern and an event type, and no observer
\* (whose handler does the matching) is started for a rule without.
C21_NoEmptyRulePastLoad ==
    /\ startup.phase \in {"start", "running"} =>
         \A i \in 1..Len(config.drop_zones) :
           /\ config.drop_zones[i].zone_dirs # <<>>
           /\ config.drop_zones[i].file_patterns # {}
           /\ config.drop_zones[i].events # {}
    /\ \A k \in 1..Len(observers) :
         config.drop_zones[observers[k][1]].file_patterns # {}

\* ---- C22
\* C22: a per-file processing error never stops the watching: no exception of
\* the agent invocation, of complete_workflow or of the notification leaves
\* the watcher's callback (no observer thread ends); the steps in which a
\* watcher handles the failure of its workflow write the record of that
\* workflow and no other, and none that is finalized; and they end with the
\* watcher back in its handler, holding no workflow, where it takes the next
\* event.
C22_Failing(w) ==
    \/ pc[w] = "x_notify"
    \/ pc[w] \in {"c_check", "c_pop", "c_final"} /\ call[w].status = FAILED
    \/ pc[w] = "c_pop" /\ active[call[w].id] = 0

C22_ErrorsContained ==
    [][\A w \in Watchers :
         /\ pc'[w] # "dead"
         /\ (pc[w] = "agent" /\ pc'[w] = "c_check" /\ call'[w].invocation = "failure")
              => recs' = recs /\ completed' = completed
         /\ (C22_Failing(w) /\ pc'[w] # pc[w])
              => /\ pc'[w] \in {"c_check", "c_pop", "c_final", "x_notify", "idle"}
                 /\ pc'[w] = "c_check" => call'[w].status = FAILED
                 /\ pc[w] = "x_notify" => pc'[w] = "idle"
                 /\ pc'[w] = "idle" => wf'[w] = 0
                 /\ \A r \in Created : recs'[r] # recs[r] => r = wf[w]
                 /\ \A r \in Created :
                      recs[r].status \in Terminal => recs'[r] = recs[r]
                 /\ \A v \in Watchers \ {w} : pc'[v] = pc[v] /\ wf'[v] = wf[v]]_vars

\* ---- C23
\* C23: a sentinel sweep never blocks on agent I/O.  With every agent call hung,
\* a sweep under way always has a step it can take; whether it calls
\* complete(id, TIMEOUT) for a record of its snapshot is decided by the
\* record's start time and the sweep's clock reading alone; and every sweep
\* that has begun reaches the end of its pass over the snapshot.
C23_InSweep == pc[Sentinel] \notin {"sleep", "dead"}

C23_PassOver == pc[Sentinel] = "s_loop" /\ sweep.idx > Len(sweep.snap)

C23_SweepNeverBlocks ==
    /\ [](C23_InSweep => ENABLED SentinelStep)
    /\ [][( /\ pc[Sentinel] = "s_loop"
             /\ ~C23_PassOver
             /\ (sweep' # sweep \/ pc'[Sentinel] # pc[Sentinel]) )
           => ( pc'[Sentinel] = "c_check"
                <=> sweep.current_time - recs[sweep.snap[sweep.idx][2]].start_time
                      > timeout_seconds )]_vars
    /\ (C23_InSweep ~> C23_PassOver)

\* A sweep has finalized a record as TimedOut and is at the end of its pass
\* while the agent call of that record is still hung.
C23_Witness ==
    /\ C23_PassOver
    /\ sweep.timed_out # <<>>
    /\ \E r \in Created : Hung(r) /\ recs[r].status = TIMEOUT /\ InCompleted(r)

\* ---- C24
\* C24: the agent is invoked at most once per workflow and an event starts at
\* most one workflow: a watcher enters an agent call only from its handler, in
\* the step that creates the one record of the event, which is then the
\* workflow it holds; no step taken after the call has ended (complete,
\* notification, an exception) leads back into an agent call; and a record
\* finalized as Failed stays Failed.
C24_NoRetry ==
    [][/\ Len(recs') <= Len(recs) + 1
       /\ \A w \in Watchers :
            /\ (pc'[w] = "agent" /\ pc[w] # "agent")
                 => /\ pc[w] = "idle"
                    /\ Len(recs') = Len(recs) + 1
                    /\ wf'[w] = Len(recs')
                    /\ \A v \in Watchers : wf[v] # wf'[w]
            /\ pc[w] \in {"agent", "hung", "c_check", "c_pop", "c_final", "x_notify"}
                 => wf'[w] \in {wf[w], 0}
       /\ \A r \in Created : recs[r].status = FAILED => recs'[r].status = FAILED]_vars

\* One event, one workflow: its agent failed, the record is Failed, both
\* notifications of the failure path are made, every watcher is back in its
\* handler and no other workflow was started.
C24_Witness ==
    /\ Len(recs) = 1
    /\ recs[1].status = FAILED
    /\ GateCalls(1) = 2
    /\ \A w \in Watchers : pc[w] = "idle" /\ wf[w] = 0

\* ---- C25
\* C25: a health query reads a consistent snapshot: while the listing of the
\* active workflows or the health status is being computed, no start or
\* complete of another thread changes the collection the query iterates over,
\* and the query does not fail.
C25_ConsistentSnapshot ==
    [][/\ query.at = "iter" => active' = active
       /\ query'.res \notin {"RuntimeError", "ValueError"}]_vars

C27_Size == IF Len(completed) < 10 THEN Len(completed) ELSE 10

C27_RecentIsLastTen ==
    [][(query.kind = "none" /\ query'.kind = "recent")
         => /\ Len(query'.recent_workflows) = C27_Size
            /\ \A k \in 1..C27_Size :
                 LET r == completed[Len(completed) - C27_Size + k]
                 IN  /\ query'.listing[k] = r
                     /\ query'.recent_workflows[k].workflow_id = recs[r].workflow_id
                     /\ query'.recent_workflows[k].status = recs[r].status
                     /\ query'.recent_workflows[k].status \in Terminal
                     /\ query'.recent_workflows[k].duration_seconds
                          = recs[r].duration_seconds
                     /\ query'.recent_workflows[k].duration_seconds # NoTime
                     /\ query'.recent_workflows[k].end_time = recs[r].end_time
                     /\ r \notin ActiveRefs
            /\ completed' = completed
            /\ recs' = recs
            /\ active' = active]_vars

\* Twelve workflows are in the history and one is active: the answer has ten
\* entries, the third to the twelfth, a Failed and a TimedOut one among them.
C27_Witness ==
    /\ query.kind = "recent"
    /\ Len(completed) = 12
    /\ ActiveRefs # {}
    /\ Len(query.recent_workflows) = 10
    /\ query.listing[1] = completed[3]
    /\ query.listing[10] = completed[12]
    /\ \E j \in 1..10, k \in 1..10 :
         /\ query.recent_workflows[j].status = FAILED
         /\ query.recent_workflows[k].status = TIMEOUT

\* ---- C28
\* C28: a record has an error message only when its status is Failed or
\* TimedOut: in every state every record that is Running or Completed has
\* none, and so has the record between the two assignments of complete (the
\* status is set, the message not yet).
C28_NoMessage(m) == m.status \in {RUNNING, COMPLETED} => m.error_message = NoError

C28_MessageOnlyOnFailure ==
    [][/\ \A r \in Created : C28_NoMessage(recs[r])
       /\ \A r \in 1..Len(recs') : C28_NoMessage(recs'[r])
       /\ \A t \in Threads :
            pc[t] = "c_final" =>
              C28_NoMessage(SetStatus(recs[call[t].ref], call[t].status))]_vars

\* A Failed record with its message beside a Completed record without one.
C28_Witness ==
    \E r \in Created, q \in Created :
      /\ recs[r].status = FAILED
      /\ recs[r].error_message # NoError
      /\ recs[q].status = COMPLETED
      /\ recs[q].error_message = NoError

\* ---- C29
\* C29: a complete call changes only the record of its workflow: each of its
\* steps writes no record with another id, leaves the other entries of the
\* active map and every entry of the history and its record as they were, and
\* the record it writes is the record of the workflow the call is made for
\* (the one the watcher started, the one whose age the sweep tested), so that
\* a failure or timeout of one workflow never changes another's status.
C29_Subject(t) == IF t = Sentinel THEN sweep.snap[sweep.idx][2] ELSE wf[t]

C29_CompleteChangesOnlyItsRecord ==
    [][\A t \in Threads :
         (pc[t] \in {"c_check", "c_pop", "c_final"} /\ pc'[t] # pc[t])
         => /\ \A r \in Created :
                 recs'[r] # recs[r] =>
                   /\ recs[r].workflow_id = call[t].id
                   /\ r = C29_Subject(t)
            /\ \A i \in IDs : i # call[t].id => active'[i] = active[i]
            /\ \A k \in 1..Len(completed) :
                 /\ completed'[k] = completed[k]
                 /\ recs'[completed[k]] = recs[completed[k]]]_vars

\* ---- C30
\* C30: the completed history is append-only: every step leaves the entries
\* that are there in their places, the length never decreases and grows by at
\* most one in a step, and the entry a step adds is the record that step
\* finalizes (it was Running and not in the history), so the entries are in
\* the order in which the complete calls finalized them.
C30_AppendOnly ==
    [][/\ Len(completed') \in {Len(completed), Len(completed) + 1}
       /\ \A k \in 1..Len(completed) : completed'[k] = completed[k]
       /\ Len(completed') = Len(completed) + 1 =>
            LET r == completed'[Len(completed')]
            IN  /\ ~InCompleted(r)
                /\ recs[r].status = RUNNING
                /\ recs'[r].status \in Terminal]_vars

\* Two entries of two workflows: the first was finalized by a sweep of the
\* sentinel, the second, later, by its observer.
C30_Witness ==
    /\ Len(completed) = 2
    /\ completed[1] # completed[2]
    /\ recs[completed[1]].status = TIMEOUT
    /\ recs[completed[2]].status \in {COMPLETED, FAILED}

\* ---- C31
\* The observers whose callback has not returned.
Busy == {w \in Watchers : pc[w] # "idle"}

\* The observer is inside the agent invocation of its current event.
InFlight(w) == pc[w] \in {"agent", "hung"}

\* C31: each observer handles its events one at a time: a workflow is started
\* only by an observer whose callback for the previous event has returned, an
\* observer holds one workflow from the start until its callback returns and
\* no two observers hold the same one, the active set never holds more records
\* than there are observers in a callback, and an observer inside an agent
\* invocation starts nothing, whatever the status of its workflow (TimedOut
\* included).
C31_OneAtATime ==
    [][/\ Len(recs') > Len(recs) =>
            \E w \in Watchers :
              /\ pc[w] = "idle" /\ wf[w] = 0
              /\ wf'[w] = Len(recs') /\ pc'[w] = "agent"
       /\ \A w \in Watchers :
            /\ wf'[w] # wf[w] => (pc[w] = "idle" \/ pc'[w] = "idle")
            /\ InFlight(w) => ~ENABLED process_file(w)
            /\ (InFlight(w) /\ recs[wf[w]].status = TIMEOUT) =>
                 (wf'[w] = wf[w] /\ pc'[w] # "idle")
            /\ (pc[w] # "idle" <=> wf[w] # 0)'
            /\ \A v \in Watchers : (w # v /\ wf[w] # 0 => wf[w] # wf[v])'
       /\ (ActiveCount <= Cardinality(Busy))'
       /\ (ActiveCount <= NumWatchers)']_vars

\* An observer is still inside the agent invocation of a workflow that the
\* sentinel has marked TimedOut, the active set is empty, and the run could
\* start another workflow.
C31_Witness ==
    /\ Len(recs) < MaxStarts
    /\ ActiveCount = 0
    /\ \E w \in Watchers : InFlight(w) /\ recs[wf[w]].status = TIMEOUT

\* ---- C32
\* C32: every id in the list of a sentinel sweep (timed_out of check_timeouts,
\* which the sweep returns) was finalized by that sweep as TimedOut: the id
\* has a record with status TimedOut whose end time is not before the sweep's
\* clock reading, and no record with that id was finalized as Completed or
\* Failed by the normal path.
C32_ListedWereTimedOut ==
    \A k \in 1..Len(sweep.timed_out) :
      /\ \E r \in Created :
           /\ recs[r].workflow_id = sweep.timed_out[k]
           /\ recs[r].status = TIMEOUT
           /\ recs[r].end_time >= sweep.current_time
      /\ \A r \in Created :
           recs[r].workflow_id = sweep.timed_out[k] => recs[r].status \notin {COMPLETED, FAILED}

\* ---- C33
\* The elapsed time the sweep under way measured for the record of its
\* snapshot it is at.
Measured == sweep.current_time - recs[sweep.snap[sweep.idx][2]].start_time

\* C33: every record in the completed history with status TimedOut has a
\* duration strictly greater than timeout_seconds; a sweep that measures for a
\* record an elapsed time equal to the deadline passes over it, leaving it
\* active and unchanged; and the duration the sweep's complete call stamps on
\* the record it finalizes is not smaller than the elapsed time the sweep
\* measured.
C33_TimedOutPastDeadline ==
    [][/\ \A k \in 1..Len(completed') :
            recs'[completed'[k]].status = TIMEOUT
            => recs'[completed'[k]].duration_seconds > timeout_seconds
       /\ ( /\ pc[Sentinel] = "s_loop"
            /\ sweep.idx <= Len(sweep.snap)
            /\ Measured = timeout_seconds
            /\ sweep' # sweep )
          => /\ pc'[Sentinel] = "s_loop"
             /\ sweep'.idx = sweep.idx + 1
             /\ sweep'.timed_out = sweep.timed_out
             /\ active' = active
             /\ recs' = recs
       /\ pc[Sentinel] = "c_final"
          => recs[call[Sentinel].ref].duration_seconds >= Measured]_vars

\* ---- C34
\* stop() has returned to run with everything shut down: both tasks are done,
\* every observer was stopped and its thread has ended, and the observer list
\* is empty.
Stopped ==
    /\ shutdown.at = "stopped"
    /\ shutdown.timeout_task \in {"cancelled", "finished"}
    /\ shutdown.health_server_task \in {"cancelled", "finished"}
    /\ shutdown.stopped = Watchers
    /\ shutdown.ended = Watchers
    /\ observers = <<>>

\* C34: shutdown terminates: once run has left its main loop, the sentinel
\* task and the health-server task are cancelled, every observer is stopped
\* and joined, and stop() returns with the observer list empty, also when an
\* agent invocation started by an observer's callback is in flight.
C34_ShutdownTerminates ==
    /\ [](shutdown.at = "stopped" => Stopped)
    /\ (shutdown.at # "loop") ~> Stopped
====
